---- MODULE Spec2Model ----
(***************************************************************************)
(* querio-api: the in-process registries (documents, chat sessions), the   *)
(* vector store orchestrator and the HTTP routes that drive them.          *)
(*                                                                         *)
(* Requests are handled by `async def` routes on one event loop; a route   *)
(* body runs without interruption between its `await` points, so a route   *)
(* without an `await` is one atomic action.  Third-party calls (PDF        *)
(* parsing, embedding, index construction, the remote LLM) are opaque:     *)
(* their success or failure is a nondeterministic input of the action.     *)
(***************************************************************************)
EXTENDS Integers, Sequences, FiniteSets, TLC

VARIABLES
    sessions,            \* ChatSessionService._sessions : session id -> record
    uuid_sessions,       \* number of session identifiers issued so far (uuid4)
    now,                 \* the wall clock read by datetime.utcnow()
    vectordb,            \* VectorStoreService.vectordb : None or an index handle
    documents_metadata,  \* DocumentService._documents_metadata : doc id -> record
    data_folder,         \* files under settings.PDF_FOLDER : file name -> content
    uuid_documents,      \* number of document identifiers issued so far (uuid4)
    bulk,                \* the bulk-upload request in flight (its loop position)
    last                 \* the operation that produced this state, and its result

vars == <<sessions, uuid_sessions, now, vectordb, documents_metadata,
          data_folder, uuid_documents, bulk, last>>

chat_vars == <<sessions, uuid_sessions, now>>
docs_vars == <<documents_metadata, data_folder, uuid_documents, bulk>>

(***************************************************************************)
(* Bounds of the model.                                                    *)
(***************************************************************************)
MaxTime == 1             \* clock readings 0..MaxTime
MaxChunks == 2           \* chunks handed to a direct rebuild call
MaxSessions == 2         \* session identifiers issued (session registry alone)
MaxMessages == 1         \* messages held by all sessions (session registry alone)
MaxChatSessions == 1     \* session identifiers issued (with POST /api/chat)
MaxChatMessages == 2     \* messages held by all sessions (with POST /api/chat)
MaxDocs == 2             \* document identifiers issued
MaxBulkFiles == 3        \* files of one bulk upload
MaxTurnMessages == 4     \* messages held by all sessions (successive chat requests)

(***************************************************************************)
(* Optional values: None is the empty sequence, Some(x) a one-element one. *)
(***************************************************************************)
None == <<>>
Some(x) == <<x>>
truthy(opt) == opt # None

Min(a, b) == IF a <= b THEN a ELSE b

\* datetime.utcnow(): a reading not before the previous one; two readings
\* taken in quick succession may be equal (clock resolution).
utcnow(t) == {t} \cup (IF t < MaxTime THEN {t + 1} ELSE {})

(***************************************************************************)
(* Request inputs.                                                         *)
(***************************************************************************)
\* uuid4 identifiers are modelled by their issue number 1, 2, ...; 0 is an
\* identifier a client can send that is never issued.
SessionIds(n) == 0..n
Roles == {"user", "assistant"}
Queries == {"q1", "q2"}
QueryK == {1, 10}              \* QueryRequest.k / ChatRequest.k, within 1..10
SearchK == {1, 20}            \* SearchRequest.k, within 1..20
ChunkTexts == <<"A", "B", "C", "D">>

\* Message and answer bodies share one shape.
Text(q) == [kind |-> "text", q |-> q, ctx |-> <<>>]

(***************************************************************************)
(* Results of calls that can raise.                                        *)
(***************************************************************************)
Ok(v) == [ok |-> TRUE, val |-> v, exc |-> ""]
Raise(e) == [ok |-> FALSE, val |-> None, exc |-> e]

NotInitialized == "Vector store not initialized"
NoChunks == "No text chunks provided."
CreationFailed == "Vector store creation failed"
LLMFailed == "LLM query failed"

RECURSIVE ClockReads(_, _)
\* The readings of n successive datetime.utcnow() calls after reading t.
ClockReads(t, n) ==
    IF n = 0 THEN {<<>>}
    ELSE UNION {{<<u>> \o s : s \in ClockReads(u, n - 1)} : u \in utcnow(t)}

\* The clock after the readings ts.
ClockAfter(t, ts) == IF ts = <<>> THEN t ELSE ts[Len(ts)]

(***************************************************************************)
(* ChatSessionService                                                      *)
(***************************************************************************)
\* create_session: the registry after storing a new session under sid.
create_session(S, sid, t_created, t_updated) ==
    [x \in DOMAIN S \cup {sid} |->
        IF x = sid
        THEN [session_id |-> sid, created_at |-> t_created,
              updated_at |-> t_updated, messages |-> <<>>, message_count |-> 0]
        ELSE S[x]]

get_session(S, sid) == IF sid \in DOMAIN S THEN Some(S[sid]) ELSE None

list_sessions(S) ==
    {[session_id |-> S[x].session_id, created_at |-> S[x].created_at,
      updated_at |-> S[x].updated_at, message_count |-> S[x].message_count]
        : x \in DOMAIN S}

\* add_message's return value.
add_message_ret(S, sid) == sid \in DOMAIN S

\* add_message as it would be without the counter update.
add_message_no_count(S, sid, role, content, t_message, t_updated) ==
    IF sid \notin DOMAIN S THEN S
    ELSE [S EXCEPT ![sid] =
            [@ EXCEPT !.messages = Append(@, [role |-> role, content |-> content,
                                              timestamp |-> t_message]),
                      !.updated_at = t_updated]]

\* add_message as it would be if an unknown session were created on demand.
add_message_creates(S, sid, role, content, t_message, t_updated) ==
    [x \in DOMAIN S \cup {sid} |->
        LET old == IF x \in DOMAIN S THEN S[x]
                   ELSE [session_id |-> sid, created_at |-> t_message,
                         updated_at |-> t_message, messages |-> <<>>,
                         message_count |-> 0]
        IN  IF x # sid THEN old
            ELSE [old EXCEPT !.messages = Append(@, [role |-> role, content |-> content,
                                                     timestamp |-> t_message]),
                             !.message_count = @ + 1,
                             !.updated_at = t_updated]]

\* add_message as it would be if the message were put at the front.
add_message_prepends(S, sid, role, content, t_message, t_updated) ==
    IF sid \notin DOMAIN S THEN S
    ELSE [S EXCEPT ![sid] =
            [@ EXCEPT !.messages = <<[role |-> role, content |-> content,
                                      timestamp |-> t_message]>> \o @,
                      !.message_count = @ + 1,
                      !.updated_at = t_updated]]

\* add_message as it would be if the new message replaced the history.
add_message_replaces(S, sid, role, content, t_message, t_updated) ==
    IF sid \notin DOMAIN S THEN S
    ELSE [S EXCEPT ![sid] =
            [@ EXCEPT !.messages = <<[role |-> role, content |-> content,
                                      timestamp |-> t_message]>>,
                      !.message_count = 1,
                      !.updated_at = t_updated]]

\* add_message: the registry after the call.
add_message(S, sid, role, content, t_message, t_updated) ==
    IF sid \notin DOMAIN S THEN S
    ELSE [S EXCEPT ![sid] =
            [@ EXCEPT !.messages = Append(@, [role |-> role, content |-> content,
                                              timestamp |-> t_message]),
                      !.message_count = @ + 1,
                      !.updated_at = t_updated]]

get_history(S, sid) ==
    IF sid \notin DOMAIN S THEN None
    ELSE Some([session_id |-> sid, messages |-> S[sid].messages,
               created_at |-> S[sid].created_at, updated_at |-> S[sid].updated_at])

\* delete_session's return value.
delete_session_ret(S, sid) == sid \in DOMAIN S

\* delete_session as it would be if it emptied the registry.
delete_session_clears(S, sid) ==
    IF sid \in DOMAIN S THEN <<>> ELSE S

\* delete_session: the registry after the call.
delete_session(S, sid) ==
    IF sid \in DOMAIN S THEN [x \in DOMAIN S \ {sid} |-> S[x]] ELSE S

(***************************************************************************)
(* Vector index, answer generator, VectorStoreService                      *)
(***************************************************************************)
Reverse(s) == [i \in 1..Len(s) |-> s[Len(s) + 1 - i]]

\* The index's chunks by decreasing similarity to the query (the embedding
\* is opaque: two queries rank the chunks in two different orders).
Ranked(db, q) == IF q = "q1" THEN db.chunks ELSE Reverse(db.chunks)

similarity_search(db, q, k) == SubSeq(Ranked(db, q), 1, Min(k, Len(db.chunks)))

\* create_vectorstore(chunks, persist_dir); built says whether the embedding
\* model and the index construction went through.
create_vectorstore(chunks, built) ==
    IF chunks = <<>> THEN Raise(NoChunks)
    ELSE IF ~built THEN Raise(CreationFailed)
    ELSE Ok([chunks |-> chunks])

AnswerK == 3

\* answer_query(db, query); generated says whether retrieval and the remote
\* model call went through.
answer_query(db, q, generated) ==
    IF ~generated THEN Raise(LLMFailed)
    ELSE Ok([kind |-> "answer", q |-> q, ctx |-> similarity_search(db, q, AnswerK)])

\* rebuild as it would be if the handle were dropped before constructing.
rebuild_drops_handle(vdb, chunks, built) ==
    LET r == create_vectorstore(chunks, built)
    IN  IF r.ok THEN Some(r.val) ELSE None

\* VectorStoreService.rebuild: the handle after the call.
rebuild(vdb, chunks, built) ==
    LET r == create_vectorstore(chunks, built)
    IN  IF r.ok THEN Some(r.val) ELSE vdb

\* VectorStoreService.rebuild's outcome: the try/except turns every failure
\* of create_vectorstore into the return value False.
rebuild_ret(chunks, built) ==
    IF create_vectorstore(chunks, built).ok THEN Ok(TRUE) ELSE Ok(FALSE)

\* query as it would be without the check of the handle.
query_unchecked(vdb, q, k, generated) ==
    IF ~truthy(vdb) THEN Ok([kind |-> "answer", q |-> q, ctx |-> <<>>])
    ELSE answer_query(vdb[1], q, generated)

\* VectorStoreService.query
query(vdb, q, k, generated) ==
    IF ~truthy(vdb) THEN Raise(NotInitialized)
    ELSE answer_query(vdb[1], q, generated)

\* VectorStoreService.search; searched says whether the retrieval went through.
search(vdb, q, k, searched) ==
    IF ~truthy(vdb) THEN Raise(NotInitialized)
    ELSE IF ~searched THEN Raise("similarity search failed")
    ELSE Ok([i \in 1..Len(similarity_search(vdb[1], q, k)) |->
                [content |-> similarity_search(vdb[1], q, k)[i], metadata |-> <<>>]])

\* The messages held by all sessions together.
RECURSIVE TotalMessages(_)
TotalMessages(S) ==
    IF DOMAIN S = {} THEN 0
    ELSE LET x == CHOOSE y \in DOMAIN S : TRUE
         IN  Len(S[x].messages) + TotalMessages([z \in DOMAIN S \ {x} |-> S[z]])

(***************************************************************************)
(* Direct calls of the service methods (the contract of the service layer). *)
(***************************************************************************)
Call(op, args, ret) == [op |-> op, status |-> 0, args |-> args, ret |-> ret]
Http(op, status, args, ret) == [op |-> op, status |-> status, args |-> args, ret |-> ret]

call_create_session ==
    /\ \E ts \in ClockReads(now, 2) :
        LET sid == uuid_sessions + 1
        IN  /\ sessions' = create_session(sessions, sid, ts[1], ts[2])
            /\ uuid_sessions' = sid
            /\ now' = ts[2]
            /\ last' = Call("create_session", <<>>, sid)
    /\ UNCHANGED <<vectordb, docs_vars>>

call_get_session(sid) ==
    /\ last' = Call("get_session", <<sid>>, get_session(sessions, sid))
    /\ UNCHANGED <<chat_vars, vectordb, docs_vars>>

call_list_sessions ==
    /\ last' = Call("list_sessions", <<>>, list_sessions(sessions))
    /\ UNCHANGED <<chat_vars, vectordb, docs_vars>>

call_add_message(sid, role, content) ==
    /\ \E ts \in ClockReads(now, IF sid \in DOMAIN sessions THEN 2 ELSE 0) :
        /\ sessions' = IF ts = <<>> THEN add_message(sessions, sid, role, content, now, now)
                       ELSE add_message(sessions, sid, role, content, ts[1], ts[2])
        /\ now' = ClockAfter(now, ts)
        /\ last' = Call("add_message", <<sid, role, content>>,
                        add_message_ret(sessions, sid))
    /\ UNCHANGED <<uuid_sessions, vectordb, docs_vars>>

call_get_history(sid) ==
    /\ last' = Call("get_history", <<sid>>, get_history(sessions, sid))
    /\ UNCHANGED <<chat_vars, vectordb, docs_vars>>

call_delete_session(sid) ==
    /\ sessions' = delete_session(sessions, sid)
    /\ last' = Call("delete_session", <<sid>>, delete_session_ret(sessions, sid))
    /\ UNCHANGED <<uuid_sessions, now, vectordb, docs_vars>>

call_rebuild(chunks, built) ==
    /\ vectordb' = rebuild(vectordb, chunks, built)
    /\ last' = Call("rebuild", <<chunks, built>>, rebuild_ret(chunks, built))
    /\ UNCHANGED <<chat_vars, docs_vars>>

call_query(q, k, generated) ==
    /\ last' = Call("query", <<q, k>>, query(vectordb, q, k, generated))
    /\ UNCHANGED <<chat_vars, vectordb, docs_vars>>

call_search(q, k, searched) ==
    /\ last' = Call("search", <<q, k>>, search(vectordb, q, k, searched))
    /\ UNCHANGED <<chat_vars, vectordb, docs_vars>>

(***************************************************************************)
(* routes/query.py, routes/search.py                                       *)
(***************************************************************************)
\* POST /api/query as it would be if the sources were read from the handle
\* loaded at startup instead of the current one.
query_documents_stale_sources(vdb, q, k, generated, searched) ==
    LET answer == query(vdb, q, k, generated)
        sources == search(Some([chunks |-> ChunkTexts]), q, k, searched)
    IN  IF ~answer.ok THEN Http("query_documents", 500, <<q, k>>, answer.exc)
        ELSE IF ~sources.ok THEN Http("query_documents", 500, <<q, k>>, sources.exc)
        ELSE Http("query_documents", 200, <<q, k>>,
                  [query |-> q, answer |-> answer.val, sources |-> sources.val])

\* The response of POST /api/query: query(), then search(), any exception
\* caught and answered 500.
query_documents(vdb, q, k, generated, searched) ==
    LET answer == query(vdb, q, k, generated)
        sources == search(vdb, q, k, searched)
    IN  IF ~answer.ok THEN Http("query_documents", 500, <<q, k>>, answer.exc)
        ELSE IF ~sources.ok THEN Http("query_documents", 500, <<q, k>>, sources.exc)
        ELSE Http("query_documents", 200, <<q, k>>,
                  [query |-> q, answer |-> answer.val, sources |-> sources.val])

route_query_documents(q, k, generated, searched) ==
    /\ last' = query_documents(vectordb, q, k, generated, searched)
    /\ UNCHANGED <<chat_vars, vectordb, docs_vars>>

\* The response of POST /api/search and POST /api/search/similar.
search_documents(op, vdb, q, k, searched) ==
    LET results == search(vdb, q, k, searched)
    IN  IF ~results.ok THEN Http(op, 500, <<q, k>>, results.exc)
        ELSE Http(op, 200, <<q, k>>,
                  [query |-> q, results |-> results.val, total |-> Len(results.val)])

route_search_documents(q, k, searched) ==
    /\ last' = search_documents("search_documents", vectordb, q, k, searched)
    /\ UNCHANGED <<chat_vars, vectordb, docs_vars>>

route_find_similar(q, k, searched) ==
    /\ last' = search_documents("find_similar", vectordb, q, k, searched)
    /\ UNCHANGED <<chat_vars, vectordb, docs_vars>>

(***************************************************************************)
(* routes/chat.py                                                          *)
(***************************************************************************)
\* How many messages POST /api/chat appends on a known or new session.
chat_appends(vdb, message, k, generated) ==
    IF query(vdb, message, k, generated).ok THEN 2 ELSE 1

\* The session check as it would be if unknown identifiers were let through.
chat_session_unchecked(S, session_id) == FALSE

\* POST /api/chat's session check: an identifier was sent and is unknown.
chat_session_missing(S, session_id) ==
    truthy(session_id) /\ ~truthy(get_session(S, session_id[1]))

\* How many datetime.utcnow() readings POST /api/chat takes.
chat_reads(S, vdb, message, session_id, k, generated) ==
    IF chat_session_missing(S, session_id) THEN 0
    ELSE (IF truthy(session_id) THEN 0 ELSE 2)
         + 2 * chat_appends(vdb, message, k, generated)

\* POST /api/chat as it would be if the user message were appended only
\* once the query step had returned.
chat_appends_after_query(S, uuid, vdb, message, session_id, k, generated, searched, ts) ==
    LET create == ~truthy(session_id)
        sid == IF create THEN uuid + 1 ELSE session_id[1]
        args == <<message, session_id, k>>
    IN  IF chat_session_missing(S, session_id)
        THEN [sessions |-> S, uuid |-> uuid,
              resp |-> Http("chat", 404, args, "Session not found")]
        ELSE
          LET o == IF create THEN 2 ELSE 0
              uuid1 == IF create THEN sid ELSE uuid
              S1 == IF create THEN create_session(S, sid, ts[1], ts[2]) ELSE S
              answer == query(vdb, message, k, generated)
          IN  IF ~answer.ok
              THEN [sessions |-> S1, uuid |-> uuid1,
                    resp |-> Http("chat", 500, args, answer.exc)]
              ELSE
                LET S2 == add_message(S1, sid, "user", Text(message),
                                      ts[o + 1], ts[o + 2])
                    S3 == add_message(S2, sid, "assistant", answer.val,
                                      ts[o + 3], ts[o + 4])
                    sources == search(vdb, message, k, searched)
                IN  IF ~sources.ok
                    THEN [sessions |-> S3, uuid |-> uuid1,
                          resp |-> Http("chat", 500, args, sources.exc)]
                    ELSE [sessions |-> S3, uuid |-> uuid1,
                          resp |-> Http("chat", 200, args,
                                        [session_id |-> sid, message |-> message,
                                         answer |-> answer.val,
                                         sources |-> sources.val])]

\* POST /api/chat: the registry, the identifier counter and the response
\* after the handler, given the clock readings ts it takes.
chat(S, uuid, vdb, message, session_id, k, generated, searched, ts) ==
    LET create == ~truthy(session_id)
        sid == IF create THEN uuid + 1 ELSE session_id[1]
        args == <<message, session_id, k>>
    IN  IF chat_session_missing(S, session_id)
        THEN [sessions |-> S, uuid |-> uuid,
              resp |-> Http("chat", 404, args, "Session not found")]
        ELSE
          LET o == IF create THEN 2 ELSE 0
              uuid1 == IF create THEN sid ELSE uuid
              S1 == IF create THEN create_session(S, sid, ts[1], ts[2]) ELSE S
              S2 == add_message(S1, sid, "user", Text(message), ts[o + 1], ts[o + 2])
              answer == query(vdb, message, k, generated)
          IN  IF ~answer.ok
              THEN [sessions |-> S2, uuid |-> uuid1,
                    resp |-> Http("chat", 500, args, answer.exc)]
              ELSE
                LET S3 == add_message(S2, sid, "assistant", answer.val,
                                      ts[o + 3], ts[o + 4])
                    sources == search(vdb, message, k, searched)
                IN  IF ~sources.ok
                    THEN [sessions |-> S3, uuid |-> uuid1,
                          resp |-> Http("chat", 500, args, sources.exc)]
                    ELSE [sessions |-> S3, uuid |-> uuid1,
                          resp |-> Http("chat", 200, args,
                                        [session_id |-> sid, message |-> message,
                                         answer |-> answer.val,
                                         sources |-> sources.val])]

route_chat(message, session_id, k, generated, searched) ==
    /\ \E ts \in ClockReads(now, chat_reads(sessions, vectordb, message,
                                            session_id, k, generated)) :
        LET r == chat(sessions, uuid_sessions, vectordb, message, session_id, k,
                      generated, searched, ts)
        IN  /\ sessions' = r.sessions
            /\ uuid_sessions' = r.uuid
            /\ now' = ClockAfter(now, ts)
            /\ last' = r.resp
    /\ UNCHANGED <<vectordb, docs_vars>>

\* The ChatSession response model built from a session record.
ChatSession(s) ==
    [session_id |-> s.session_id, created_at |-> s.created_at,
     updated_at |-> s.updated_at, message_count |-> s.message_count]

route_list_sessions ==
    /\ last' = Http("route_list_sessions", 200, <<>>, list_sessions(sessions))
    /\ UNCHANGED <<chat_vars, vectordb, docs_vars>>

route_create_session ==
    /\ \E ts \in ClockReads(now, 2) :
        LET sid == uuid_sessions + 1
            S1 == create_session(sessions, sid, ts[1], ts[2])
        IN  /\ sessions' = S1
            /\ uuid_sessions' = sid
            /\ now' = ts[2]
            /\ last' = Http("route_create_session", 200, <<>>,
                            ChatSession(get_session(S1, sid)[1]))
    /\ UNCHANGED <<vectordb, docs_vars>>

route_get_session(sid) ==
    /\ last' = IF truthy(get_session(sessions, sid))
               THEN Http("route_get_session", 200, <<sid>>,
                         ChatSession(get_session(sessions, sid)[1]))
               ELSE Http("route_get_session", 404, <<sid>>, "Session not found")
    /\ UNCHANGED <<chat_vars, vectordb, docs_vars>>

route_delete_session(sid) ==
    /\ sessions' = delete_session(sessions, sid)
    /\ last' = IF delete_session_ret(sessions, sid)
               THEN Http("route_delete_session", 200, <<sid>>, [success |-> TRUE])
               ELSE Http("route_delete_session", 404, <<sid>>, "Session not found")
    /\ UNCHANGED <<uuid_sessions, now, vectordb, docs_vars>>

route_get_session_history(sid) ==
    /\ last' = IF truthy(get_history(sessions, sid))
               THEN Http("route_get_session_history", 200, <<sid>>,
                         get_history(sessions, sid)[1])
               ELSE Http("route_get_session_history", 404, <<sid>>, "Session not found")
    /\ UNCHANGED <<chat_vars, vectordb, docs_vars>>

(***************************************************************************)
(* File names, PDF contents, text extraction and chunking.                 *)
(* A name is a sequence of characters.  A content stands for the bytes of  *)
(* a file: "garbage" cannot be opened as a PDF, "blank" is a PDF without   *)
(* text, "A" is a PDF whose text is the paragraph A.                       *)
(***************************************************************************)
DotPdf == <<".", "p", "d", "f">>

\* str.lower() on one character.
Lower(c) ==
    CASE c = "P" -> "p" [] c = "D" -> "d" [] c = "F" -> "f"
      [] c = "T" -> "t" [] c = "X" -> "x" [] OTHER -> c

lower(s) == [i \in 1..Len(s) |-> Lower(s[i])]

endswith(s, suffix) ==
    /\ Len(s) >= Len(suffix)
    /\ SubSeq(s, Len(s) - Len(suffix) + 1, Len(s)) = suffix

\* The check without the dot of the suffix: endswith('pdf').
is_pdf_filename_no_dot(name) == endswith(lower(name), <<"p", "d", "f">>)

\* The routes' check: file.filename.lower().endswith('.pdf')
is_pdf_filename(name) == endswith(lower(name), DotPdf)

\* Path.stem of a name with a four-character suffix.
stem(name) == SubSeq(name, 1, Len(name) - Len(DotPdf))

\* data_folder.glob("*.pdf"): the names matching the pattern as written.
glob_pdf(folder) == {n \in DOMAIN folder : endswith(n, DotPdf)}

\* fitz.open(path) and len(doc): None when the file is no PDF.
page_count(content) == IF content = "garbage" THEN None ELSE Some(1)

\* The text of one file as load_pdfs adds it: its pages, then "\n".
ExtractText(content) == IF content = "blank" THEN <<"">> ELSE <<content, "">>

RECURSIVE listdir(_)
\* os.listdir: the names in the order the file system lists them.  The order
\* is arbitrary but fixed for a given directory; with the contents modelled
\* here the extracted chunks do not depend on it.
listdir(names) ==
    IF names = {} THEN <<>>
    ELSE LET n == CHOOSE x \in names : TRUE IN <<n>> \o listdir(names \ {n})

RECURSIVE load_pdfs_from(_, _, _)
load_pdfs_from(folder, order, i) ==
    IF i > Len(order) THEN Ok(<<>>)
    ELSE IF ~is_pdf_filename(order[i]) THEN load_pdfs_from(folder, order, i + 1)
    ELSE IF ~truthy(page_count(folder[order[i]])) THEN Raise("Error reading file")
    ELSE LET rest == load_pdfs_from(folder, order, i + 1)
         IN  IF rest.ok THEN Ok(ExtractText(folder[order[i]]) \o rest.val) ELSE rest

\* load_pdfs(folder_path)
load_pdfs(folder) == load_pdfs_from(folder, listdir(DOMAIN folder), 1)

IsParagraph(t) == t # ""

\* split_text(text): the non-empty pieces between the "\n" separators.
split_text(text) == SelectSeq(text, IsParagraph)

(***************************************************************************)
(* DocumentService                                                         *)
(***************************************************************************)
UuidChars == <<"1", "2", "3", "4", "5", "6">>

\* The n-th identifier uuid4 hands out.
Uuid(n) == <<UuidChars[n]>>

\* _load_existing_documents as it would be if the records it synthesizes
\* were left unprocessed.
load_existing_documents_unprocessed(folder) ==
    [id \in {stem(n) : n \in glob_pdf(folder)} |->
        [id |-> id, filename |-> id \o DotPdf, page_count |-> None, processed |-> FALSE]]

\* _load_existing_documents: one record per globbed file.
load_existing_documents(folder) ==
    [id \in {stem(n) : n \in glob_pdf(folder)} |->
        [id |-> id, filename |-> id \o DotPdf, page_count |-> None, processed |-> TRUE]]

\* upload_document keeping one record per filename: the registry keyed by
\* the filename instead of a fresh identifier.
upload_document_by_filename(D, F, uuid, filename, content, written) ==
    LET doc_id == stem(filename)
        path == doc_id \o DotPdf
        metadata == [id |-> doc_id, filename |-> filename,
                     page_count |-> page_count(content), processed |-> FALSE]
        Fnew(c) == [n \in DOMAIN F \cup {path} |-> IF n = path THEN c ELSE F[n]]
    IN  IF written = "no_file"
        THEN [documents |-> D, folder |-> F, result |-> Raise("cannot open file")]
        ELSE IF written = "partial"
        THEN [documents |-> D, folder |-> Fnew("garbage"),
              result |-> Raise("cannot write file")]
        ELSE [documents |-> [d \in DOMAIN D \cup {doc_id} |->
                                IF d = doc_id THEN metadata ELSE D[d]],
              folder |-> Fnew(content),
              result |-> Ok(metadata)]

\* upload_document.  written tells how saving the file went: "ok", "no_file"
\* (open failed) or "partial" (the file was created, writing it failed).
upload_document(D, F, uuid, filename, content, written) ==
    LET doc_id == Uuid(uuid + 1)
        path == doc_id \o DotPdf
        metadata == [id |-> doc_id, filename |-> filename,
                     page_count |-> page_count(content), processed |-> FALSE]
        Fnew(c) == [n \in DOMAIN F \cup {path} |-> IF n = path THEN c ELSE F[n]]
    IN  IF written = "no_file"
        THEN [documents |-> D, folder |-> F, result |-> Raise("cannot open file")]
        ELSE IF written = "partial"
        THEN [documents |-> D, folder |-> Fnew("garbage"),
              result |-> Raise("cannot write file")]
        ELSE [documents |-> [d \in DOMAIN D \cup {doc_id} |->
                                IF d = doc_id THEN metadata ELSE D[d]],
              folder |-> Fnew(content),
              result |-> Ok(metadata)]

list_documents(D) == {D[d] : d \in DOMAIN D}

get_document(D, doc_id) == IF doc_id \in DOMAIN D THEN Some(D[doc_id]) ELSE None

\* delete_document's return value.
delete_document_ret(D, doc_id) == doc_id \in DOMAIN D

\* delete_document as it would be if the backing file were left in place.
delete_document_keeps_file(D, F, doc_id) ==
    IF doc_id \notin DOMAIN D THEN [documents |-> D, folder |-> F]
    ELSE [documents |-> [d \in DOMAIN D \ {doc_id} |-> D[d]], folder |-> F]

\* delete_document: the registry and the folder after the call.
delete_document(D, F, doc_id) ==
    IF doc_id \notin DOMAIN D THEN [documents |-> D, folder |-> F]
    ELSE [documents |-> [d \in DOMAIN D \ {doc_id} |-> D[d]],
          folder |-> [n \in DOMAIN F \ {doc_id \o DotPdf} |-> F[n]]]

\* process_documents marking the records before it reads the folder.
process_documents_marks_first(D, F) ==
    LET text == load_pdfs(F)
        marked == [d \in DOMAIN D |-> [D[d] EXCEPT !.processed = TRUE]]
    IN  IF ~text.ok THEN [documents |-> marked, result |-> text]
        ELSE [documents |-> marked,
              result |-> Ok(<<Cardinality(DOMAIN D), Len(split_text(text.val))>>)]

\* process_documents: the registry after the call and (document count, chunk
\* count), or the exception load_pdfs raised.
process_documents(D, F) ==
    LET text == load_pdfs(F)
    IN  IF ~text.ok THEN [documents |-> D, result |-> text]
        ELSE [documents |-> [d \in DOMAIN D |-> [D[d] EXCEPT !.processed = TRUE]],
              result |-> Ok(<<Cardinality(DOMAIN D), Len(split_text(text.val))>>)]

(***************************************************************************)
(* Direct calls of DocumentService.                                        *)
(***************************************************************************)
call_upload_document(filename, content, written) ==
    LET r == upload_document(documents_metadata, data_folder, uuid_documents,
                             filename, content, written)
    IN  /\ documents_metadata' = r.documents
        /\ data_folder' = r.folder
        /\ uuid_documents' = uuid_documents + 1
        /\ last' = Call("upload_document", <<filename>>, r.result)
        /\ UNCHANGED <<chat_vars, vectordb, bulk>>

call_delete_document(doc_id) ==
    LET r == delete_document(documents_metadata, data_folder, doc_id)
    IN  /\ documents_metadata' = r.documents
        /\ data_folder' = r.folder
        /\ last' = Call("delete_document", <<doc_id>>,
                        delete_document_ret(documents_metadata, doc_id))
        /\ UNCHANGED <<chat_vars, vectordb, uuid_documents, bulk>>

call_process_documents ==
    LET r == process_documents(documents_metadata, data_folder)
    IN  /\ documents_metadata' = r.documents
        /\ last' = Call("process_documents", <<>>, r.result)
        /\ UNCHANGED <<chat_vars, vectordb, data_folder, uuid_documents, bulk>>

(***************************************************************************)
(* routes/documents.py                                                     *)
(***************************************************************************)
\* POST /api/documents/upload.  The handler's only await, file.read(), comes
\* between the name check and upload_document and touches no shared state,
\* so the handler is one step.
route_upload_document(filename, content, written) ==
    IF ~is_pdf_filename(filename)
    THEN /\ last' = Http("route_upload_document", 400, <<filename>>,
                         "Only PDF files are allowed")
         /\ UNCHANGED <<chat_vars, vectordb, docs_vars>>
    ELSE LET r == upload_document(documents_metadata, data_folder, uuid_documents,
                                  filename, content, written)
         IN  /\ documents_metadata' = r.documents
             /\ data_folder' = r.folder
             /\ uuid_documents' = uuid_documents + 1
             /\ last' = IF r.result.ok
                        THEN Http("route_upload_document", 200, <<filename>>, r.result.val)
                        ELSE Http("route_upload_document", 500, <<filename>>, r.result.exc)
             /\ UNCHANGED <<chat_vars, vectordb, bulk>>

route_list_documents ==
    /\ last' = Http("route_list_documents", 200, <<>>,
                    [documents |-> list_documents(documents_metadata),
                     total |-> Cardinality(list_documents(documents_metadata))])
    /\ UNCHANGED <<chat_vars, vectordb, docs_vars>>

route_get_document(doc_id) ==
    /\ last' = IF truthy(get_document(documents_metadata, doc_id))
               THEN Http("route_get_document", 200, <<doc_id>>,
                         get_document(documents_metadata, doc_id)[1])
               ELSE Http("route_get_document", 404, <<doc_id>>, "Document not found")
    /\ UNCHANGED <<chat_vars, vectordb, docs_vars>>

route_delete_document(doc_id) ==
    LET r == delete_document(documents_metadata, data_folder, doc_id)
    IN  /\ documents_metadata' = r.documents
        /\ data_folder' = r.folder
        /\ last' = IF delete_document_ret(documents_metadata, doc_id)
                   THEN Http("route_delete_document", 200, <<doc_id>>, [success |-> TRUE])
                   ELSE Http("route_delete_document", 404, <<doc_id>>, "Document not found")
        /\ UNCHANGED <<chat_vars, vectordb, uuid_documents, bulk>>

\* POST /api/documents/process: the registry, the index handle and the
\* response after the handler.
route_process(D, F, vdb, built) ==
    LET p == process_documents(D, F)
    IN  IF ~p.result.ok
        THEN [documents |-> p.documents, vectordb |-> vdb,
              resp |-> Http("route_process_documents", 500, <<>>, p.result.exc)]
        ELSE IF p.result.val[2] = 0
        THEN [documents |-> p.documents, vectordb |-> vdb,
              resp |-> Http("route_process_documents", 400, <<>>,
                            "No documents to process")]
        ELSE
          LET text == load_pdfs(F)
          IN  IF ~text.ok
              THEN [documents |-> p.documents, vectordb |-> vdb,
                    resp |-> Http("route_process_documents", 500, <<>>, text.exc)]
              ELSE
                LET chunks == split_text(text.val)
                    success == rebuild_ret(chunks, built).val
                IN  IF ~success
                    THEN [documents |-> p.documents,
                          vectordb |-> rebuild(vdb, chunks, built),
                          resp |-> Http("route_process_documents", 500, <<>>,
                                        "Failed to rebuild vector store")]
                    ELSE [documents |-> p.documents,
                          vectordb |-> rebuild(vdb, chunks, built),
                          resp |-> Http("route_process_documents", 200, <<>>,
                                        [documents_processed |-> p.result.val[1],
                                         chunks_created |-> Len(chunks)])]

route_process_documents(built) ==
    LET r == route_process(documents_metadata, data_folder, vectordb, built)
    IN  /\ documents_metadata' = r.documents
        /\ vectordb' = r.vectordb
        /\ last' = r.resp
        /\ UNCHANGED <<chat_vars, data_folder, uuid_documents, bulk>>

\* POST /api/documents/bulk-upload.  The loop runs up to the next await
\* file.read(), i.e. over the files the name check rejects; b.i is the file
\* whose read is awaited, or Len(b.files) + 1 after the last file.
RECURSIVE bulk_skip(_)
bulk_skip(b) ==
    IF b.i > Len(b.files) THEN b
    ELSE IF is_pdf_filename(b.files[b.i].filename) THEN b
    ELSE bulk_skip([b EXCEPT !.i = @ + 1,
                             !.errors = Append(@, [filename |-> b.files[b.i].filename,
                                                   error |-> "Not a PDF file"])])

\* The response answering 500 as soon as one file failed.
bulk_response_any_error(b) ==
    IF b.errors # <<>>
    THEN Http("bulk_upload_documents", 500, b.files,
              [uploaded_docs |-> b.uploaded_docs, errors |-> b.errors])
    ELSE Http("bulk_upload_documents", 200, b.files,
              [uploaded_docs |-> b.uploaded_docs, errors |-> b.errors])

\* The response once the loop is over.
bulk_response(b) ==
    IF b.errors # <<>> /\ b.uploaded_docs = <<>>
    THEN Http("bulk_upload_documents", 500, b.files,
              [uploaded_docs |-> b.uploaded_docs, errors |-> b.errors])
    ELSE Http("bulk_upload_documents", 200, b.files,
              [uploaded_docs |-> b.uploaded_docs, errors |-> b.errors])

\* The request arrives: the handler runs to its first await or to its end.
route_bulk_upload_documents(files) ==
    LET b == bulk_skip([files |-> files, i |-> 1, uploaded_docs |-> <<>>,
                        errors |-> <<>>])
    IN  /\ bulk = None
        /\ IF b.i > Len(files)
           THEN bulk' = None /\ last' = bulk_response(b)
           ELSE bulk' = Some(b) /\ last' = Http("bulk_upload_documents", 0, files, None)
        /\ UNCHANGED <<chat_vars, vectordb, documents_metadata, data_folder,
                       uuid_documents>>

\* The awaited read returns: upload_document for that file, then the loop
\* runs to the next await or to the response.
route_bulk_upload_resume(written) ==
    /\ bulk # None
    /\ LET b == bulk[1]
           file == b.files[b.i]
           r == upload_document(documents_metadata, data_folder, uuid_documents,
                                file.filename, file.content, written)
           b1 == IF r.result.ok
                 THEN [b EXCEPT !.i = @ + 1,
                                !.uploaded_docs = Append(@, r.result.val)]
                 ELSE [b EXCEPT !.i = @ + 1,
                                !.errors = Append(@, [filename |-> file.filename,
                                                      error |-> r.result.exc])]
           b2 == bulk_skip(b1)
       IN  /\ documents_metadata' = r.documents
           /\ data_folder' = r.folder
           /\ uuid_documents' = uuid_documents + 1
           /\ IF b2.i > Len(b2.files)
              THEN bulk' = None /\ last' = bulk_response(b2)
              ELSE bulk' = Some(b2) /\ last' = Http("bulk_upload_documents", 0, b2.files, None)
    /\ UNCHANGED <<chat_vars, vectordb>>

(***************************************************************************)
(* Construction (api/dependencies.py).                                     *)
(***************************************************************************)
\* VectorStoreService._initialize: persisted is the index found under
\* settings.CHROMA_DB (None when the directory is missing or empty), loaded
\* says whether opening it went through.
initialize(persisted, loaded) ==
    IF truthy(persisted) /\ loaded THEN Some([chunks |-> persisted[1]]) ELSE None

\* The persisted index found at startup: none, or one holding four chunks.
PersistedAtStartup == {None, Some(<<"A", "B", "C", "D">>)}

\* The chunk lists of length <= MaxChunks a caller hands to rebuild.
ChunkLists == {SubSeq(ChunkTexts, 1, n) : n \in 0..MaxChunks}

\* The folders the process can find at startup.
StartupFolders ==
    { <<>>,
      (<<"x", ".", "p", "d", "f">> :> "A"),
      (<<"x", ".", "p", "d", "f">> :> "A") @@ (<<"y", ".", "P", "D", "F">> :> "A") }

\* The state after api/dependencies.py has constructed the three services.
InitWith(folders, indexes) ==
    /\ sessions = <<>>
    /\ uuid_sessions = 0
    /\ now = 0
    /\ \E persisted \in indexes, loaded \in BOOLEAN :
          vectordb = initialize(persisted, loaded)
    /\ \E folder \in folders :
          /\ data_folder = folder
          /\ documents_metadata = load_existing_documents(folder)
    /\ uuid_documents = 0
    /\ bulk = None
    /\ last = Call("startup", <<>>, None)

Init == InitWith(StartupFolders, PersistedAtStartup)

\* The process is stopped and started again: the three services are
\* constructed anew over the folder as it is.  The sessions and a request in
\* flight are lost; the index is the one the handle held, when opening it
\* goes through; uuid4 goes on issuing identifiers not issued before.
restart(loaded) ==
    /\ sessions' = <<>>
    /\ vectordb' = (IF loaded THEN vectordb ELSE None)
    /\ documents_metadata' = load_existing_documents(data_folder)
    /\ bulk' = None
    /\ last' = Call("startup", <<>>, None)
    /\ UNCHANGED <<uuid_sessions, now, data_folder, uuid_documents>>

(***************************************************************************)
(* The vector store orchestrator and the routes that only read it.         *)
(***************************************************************************)
NextVector ==
    \/ \E chunks \in ChunkLists, built \in BOOLEAN : call_rebuild(chunks, built)
    \/ \E q \in Queries, k \in QueryK, generated \in BOOLEAN : call_query(q, k, generated)
    \/ \E q \in Queries, k \in SearchK, searched \in BOOLEAN : call_search(q, k, searched)
    \/ \E q \in Queries, k \in QueryK, generated \in BOOLEAN, searched \in BOOLEAN :
          route_query_documents(q, k, generated, searched)
    \/ \E q \in Queries, k \in SearchK, searched \in BOOLEAN :
          route_search_documents(q, k, searched)
    \/ \E q \in Queries, k \in SearchK, searched \in BOOLEAN :
          route_find_similar(q, k, searched)

SpecVector == InitWith({<<>>}, PersistedAtStartup) /\ [][NextVector]_vars

(***************************************************************************)
(* The chat session registry through its service methods and its routes.   *)
(***************************************************************************)
NextSessions ==
    \/ uuid_sessions < MaxSessions /\ call_create_session
    \/ uuid_sessions < MaxSessions /\ route_create_session
    \/ \E sid \in SessionIds(MaxSessions) : call_get_session(sid)
    \/ \E sid \in SessionIds(MaxSessions) : route_get_session(sid)
    \/ call_list_sessions
    \/ route_list_sessions
    \/ \E sid \in SessionIds(MaxSessions), role \in Roles :
          /\ sid \in DOMAIN sessions => TotalMessages(sessions) < MaxMessages
          /\ call_add_message(sid, role, Text("q1"))
    \/ \E sid \in SessionIds(MaxSessions) : call_get_history(sid)
    \/ \E sid \in SessionIds(MaxSessions) : route_get_session_history(sid)
    \/ \E sid \in SessionIds(MaxSessions) : call_delete_session(sid)
    \/ \E sid \in SessionIds(MaxSessions) : route_delete_session(sid)

SpecSessions == InitWith({<<>>}, {None}) /\ [][NextSessions]_vars

(***************************************************************************)
(* POST /api/chat with the session routes and the index it queries.        *)
(***************************************************************************)
NextChat ==
    \/ \E sid \in {None} \cup {Some(x) : x \in SessionIds(MaxChatSessions)},
          k \in QueryK, generated \in BOOLEAN, searched \in BOOLEAN :
          /\ ~truthy(sid) => uuid_sessions < MaxChatSessions
          /\ ~chat_session_missing(sessions, sid) =>
                TotalMessages(sessions) + chat_appends(vectordb, "q1", k, generated)
                    <= MaxChatMessages
          /\ route_chat("q1", sid, k, generated, searched)
    \/ uuid_sessions < MaxChatSessions /\ route_create_session
    \/ \E sid \in SessionIds(MaxChatSessions) : route_delete_session(sid)
    \/ \E chunks \in {<<>>, SubSeq(ChunkTexts, 1, MaxChunks)} : call_rebuild(chunks, TRUE)
    \/ \E k \in QueryK, generated \in BOOLEAN : call_query("q1", k, generated)
    \/ \E k \in SearchK, searched \in BOOLEAN : call_search("q1", k, searched)
    \/ \E k \in QueryK, generated \in BOOLEAN, searched \in BOOLEAN :
          route_query_documents("q1", k, generated, searched)
    \/ \E k \in SearchK, searched \in BOOLEAN : route_search_documents("q1", k, searched)

SpecChat == InitWith({<<>>}, PersistedAtStartup) /\ [][NextChat]_vars

(***************************************************************************)
(* The document registry, its routes and the index rebuild.                *)
(***************************************************************************)
FileNames ==
    { <<"a", ".", "p", "d", "f">>, <<"b", ".", "P", "D", "F">>,
      <<"c", ".", "t", "x", "t">>, <<"d", "p", "d", "f">> }
Contents == {"garbage", "blank", "A"}
Written == {"ok", "no_file", "partial"}
DocIds(n) == {Uuid(i) : i \in 1..n} \cup {<<"x">>, <<"0">>}

\* The files of a bulk upload: a valid PDF or a text file, in any order.
BulkFile == { [filename |-> <<"a", ".", "p", "d", "f">>, content |-> "A"],
              [filename |-> <<"c", ".", "t", "x", "t">>, content |-> "A"] }
BulkRequests == UNION {[1..n -> BulkFile] : n \in 1..MaxBulkFiles}

PdfCount(files) == Cardinality({i \in DOMAIN files : is_pdf_filename(files[i].filename)})

NextUpload ==
    \/ \E f \in FileNames, c \in Contents, w \in Written :
          uuid_documents < MaxDocs /\ route_upload_document(f, c, w)
    \/ route_list_documents
    \/ \E d \in DocIds(MaxDocs) : route_get_document(d)
    \/ \E d \in DocIds(MaxDocs) : route_delete_document(d)

SpecUpload == InitWith(StartupFolders, {None}) /\ [][NextUpload]_vars

NextBulk ==
    \/ \E files \in BulkRequests :
          /\ uuid_documents + PdfCount(files) <= MaxDocs
          /\ route_bulk_upload_documents(files)
    \/ \E w \in Written : uuid_documents < MaxDocs /\ route_bulk_upload_resume(w)
    \/ \E w \in Written :
          uuid_documents < MaxDocs
            /\ route_upload_document(<<"a", ".", "p", "d", "f">>, "A", w)
    \/ \E d \in DocIds(MaxDocs) : route_delete_document(d)

SpecBulk == InitWith({<<>>}, {None}) /\ [][NextBulk]_vars

NextProcess ==
    \/ \E c \in Contents, w \in Written :
          uuid_documents < MaxDocs
            /\ call_upload_document(<<"a", ".", "p", "d", "f">>, c, w)
    \/ \E d \in DocIds(MaxDocs) : call_delete_document(d)
    \/ \E d \in DocIds(MaxDocs) : route_delete_document(d)
    \/ call_process_documents
    \/ \E built \in BOOLEAN : route_process_documents(built)

SpecProcess == InitWith(StartupFolders, PersistedAtStartup) /\ [][NextProcess]_vars

(***************************************************************************)
(* Successive POST /api/chat requests on the same sessions.  The handler   *)
(* has no await: the event loop runs each request to its response before   *)
(* it starts another.                                                      *)
(***************************************************************************)
NextTurns ==
    \E message \in Queries,
       sid \in {None} \cup {Some(x) : x \in SessionIds(MaxChatSessions)},
       generated \in BOOLEAN :
       /\ ~truthy(sid) => uuid_sessions < MaxChatSessions
       /\ ~chat_session_missing(sessions, sid) =>
             TotalMessages(sessions) + chat_appends(vectordb, message, 1, generated)
                 <= MaxTurnMessages
       /\ route_chat(message, sid, 1, generated, TRUE)

SpecTurns == InitWith({<<>>}, PersistedAtStartup) /\ [][NextTurns]_vars

(***************************************************************************)
(* The session histories under every operation that touches them: the      *)
(* service methods and POST /api/chat.                                      *)
(***************************************************************************)
NextHistory ==
    \/ uuid_sessions < MaxChatSessions /\ call_create_session
    \/ \E sid \in SessionIds(MaxChatSessions), role \in Roles :
          /\ sid \in DOMAIN sessions => TotalMessages(sessions) < MaxChatMessages
          /\ call_add_message(sid, role, Text("q2"))
    \/ \E sid \in SessionIds(MaxChatSessions) : call_delete_session(sid)
    \/ call_list_sessions
    \/ route_list_sessions
    \/ \E sid \in {None} \cup {Some(x) : x \in SessionIds(MaxChatSessions)},
          generated \in BOOLEAN :
          /\ ~truthy(sid) => uuid_sessions < MaxChatSessions
          /\ ~chat_session_missing(sessions, sid) =>
                TotalMessages(sessions) + chat_appends(vectordb, "q1", 1, generated)
                    <= MaxChatMessages
          /\ route_chat("q1", sid, 1, generated, TRUE)

SpecHistory == InitWith({<<>>}, PersistedAtStartup) /\ [][NextHistory]_vars

(***************************************************************************)
(* The document registry across restarts of the process.                   *)
(***************************************************************************)
NextRestart ==
    \/ \E f \in {<<"a", ".", "p", "d", "f">>, <<"b", ".", "P", "D", "F">>},
          c \in Contents, w \in Written :
          uuid_documents < MaxDocs /\ route_upload_document(f, c, w)
    \/ \E d \in DocIds(MaxDocs) : route_delete_document(d)
    \/ route_list_documents
    \/ \E loaded \in BOOLEAN : restart(loaded)

SpecRestart == InitWith(StartupFolders, PersistedAtStartup) /\ [][NextRestart]_vars

(***************************************************************************)
(* POST /api/query and POST /api/chat served around POST                   *)
(* /api/documents/process.  None of the three handlers has an await.       *)
(***************************************************************************)
NextRequery ==
    \/ /\ uuid_documents < MaxDocs
       /\ route_upload_document(<<"a", ".", "p", "d", "f">>, "A", "ok")
    \/ \E built \in BOOLEAN : route_process_documents(built)
    \/ \E q \in Queries, k \in QueryK : route_query_documents(q, k, TRUE, TRUE)
    \/ /\ uuid_sessions < MaxChatSessions
       /\ TotalMessages(sessions) + 2 <= MaxChatMessages
       /\ route_chat("q2", None, 1, TRUE, TRUE)

SpecRequery == InitWith(StartupFolders, PersistedAtStartup) /\ [][NextRequery]_vars

Next ==
    \/ NextVector \/ NextSessions \/ NextChat \/ NextTurns \/ NextRequery
    \/ NextRestart \/ NextHistory
    \/ NextUpload \/ NextBulk \/ NextProcess

Spec == Init /\ [][Next]_vars

(***************************************************************************)
(* Claims                                                                  *)
(***************************************************************************)

\* C1: a rebuild that fails -- an empty chunk list, or a construction error
\* -- returns False without raising and leaves the index handle as it was,
\* so a handle that answered queries before still does; and a rebuild that
\* returns False has never touched the handle.
C1_FailedRebuildKeepsHandle ==
    [][ last'.op = "rebuild" =>
          /\ last'.ret.ok
          /\ (last'.args[1] = <<>> \/ ~last'.args[2]) => last'.ret.val = FALSE
          /\ last'.ret.val = FALSE =>
                /\ vectordb' = vectordb
                /\ \A q \in Queries, k \in QueryK :
                      query(vectordb, q, k, TRUE).ok => query(vectordb', q, k, TRUE).ok
      ]_vars

\* A rebuild with an empty chunk list has returned False while an index is loaded.
C1_Witness ==
    /\ last.op = "rebuild"
    /\ last.args[1] = <<>>
    /\ last.ret = Ok(FALSE)
    /\ vectordb # None

\* C2: while no index handle is loaded, query and search raise "Vector store
\* not initialized"; POST /api/query, /api/search and /api/search/similar
\* answer 500 with that message, and POST /api/chat answers 500 with it
\* unless its session check has already answered 404.
C2_NotInitializedIs500 ==
    vectordb = None =>
        /\ last.op \in {"query", "search"} =>
              ~last.ret.ok /\ last.ret.exc = NotInitialized
        /\ last.op \in {"query_documents", "search_documents", "find_similar"} =>
              last.status = 500 /\ last.ret = NotInitialized
        /\ last.op = "chat" =>
              \/ last.status = 404
              \/ last.status = 500 /\ last.ret = NotInitialized

\* POST /api/chat on a known session has answered 500 for want of an index.
C2_Witness ==
    /\ vectordb = None
    /\ last.op = "chat"
    /\ last.status = 500
    /\ last.ret = NotInitialized
    /\ last.args[2] # None

\* C3 as stated: get_session after create_session shows message_count = 0,
\* and one add_message makes it 1 and makes updated_at strictly greater.
C3_UpdatedAtStrictlyIncreases ==
    [][ /\ last'.op = "create_session" =>
              get_session(sessions', last'.ret)[1].message_count = 0
        /\ (last'.op = "add_message" /\ last'.ret = TRUE) =>
              /\ sessions'[last'.args[1]].message_count
                    = sessions[last'.args[1]].message_count + 1
              /\ sessions'[last'.args[1]].updated_at
                    > sessions[last'.args[1]].updated_at
      ]_vars

\* C3 amended: get_session after create_session shows message_count = 0; one
\* add_message raises message_count by one (to 1 on a new session) and sets
\* updated_at to the clock reading taken after the append, which is never
\* earlier than the previous updated_at and equals it when the clock has not
\* advanced since.
C3_UpdatedAtNeverDecreases ==
    [][ /\ last'.op = "create_session" =>
              /\ truthy(get_session(sessions', last'.ret))
              /\ get_session(sessions', last'.ret)[1].message_count = 0
              /\ get_session(sessions', last'.ret)[1].messages = <<>>
        /\ (last'.op = "add_message" /\ last'.ret = TRUE) =>
              LET before == sessions[last'.args[1]]
                  after == sessions'[last'.args[1]]
              IN  /\ after.message_count = before.message_count + 1
                  /\ before.messages = <<>> => after.message_count = 1
                  /\ after.updated_at >= before.updated_at
                  /\ after.updated_at = now'
      ]_vars

\* The first message of a session was added with the clock still at the
\* reading create_session took.
C3_Witness ==
    /\ last.op = "add_message"
    /\ last.ret = TRUE
    /\ sessions[last.args[1]].message_count = 1
    /\ sessions[last.args[1]].updated_at = sessions[last.args[1]].created_at

\* C4: delete_session on an identifier that is not in the registry returns
\* False (DELETE answers 404) and changes no session; on a known identifier
\* it returns True (200) and removes that session alone, after which
\* get_session, get_history and add_message report it absent; an identifier
\* once removed never comes back.
C4_DeleteSession ==
    [][ /\ last'.op \in {"delete_session", "route_delete_session"} =>
              LET sid == last'.args[1]
                  ok == IF last'.op = "delete_session" THEN last'.ret = TRUE
                        ELSE last'.status = 200
                  notfound == IF last'.op = "delete_session" THEN last'.ret = FALSE
                              ELSE last'.status = 404
              IN  /\ sid \notin DOMAIN sessions => notfound /\ sessions' = sessions
                  /\ sid \in DOMAIN sessions =>
                        /\ ok
                        /\ DOMAIN sessions' = DOMAIN sessions \ {sid}
                        /\ \A x \in DOMAIN sessions' : sessions'[x] = sessions[x]
                        /\ get_session(sessions', sid) = None
                        /\ get_history(sessions', sid) = None
                        /\ ~add_message_ret(sessions', sid)
        /\ \A sid \in 1..uuid_sessions :
              sid \notin DOMAIN sessions => sid \notin DOMAIN sessions'
      ]_vars

\* DELETE has removed one session and another is still registered.
C4_Witness ==
    /\ last.op = "route_delete_session"
    /\ last.status = 200
    /\ DOMAIN sessions # {}
    /\ last.args[1] \notin DOMAIN sessions

\* C5: add_message on an identifier that is not in the registry returns
\* False, creates no session and changes no existing session.
C5_AddMessageUnknownIsNoOp ==
    [][ (last'.op = "add_message" /\ last'.args[1] \notin DOMAIN sessions) =>
          /\ last'.ret = FALSE
          /\ sessions' = sessions
          /\ uuid_sessions' = uuid_sessions
      ]_vars

\* add_message has returned False while a session exists.
C5_Witness ==
    /\ last.op = "add_message"
    /\ last.ret = FALSE
    /\ DOMAIN sessions # {}

EndsInDotPdf(name) ==
    /\ Len(name) >= 4
    /\ name[Len(name) - 3] = "."
    /\ name[Len(name) - 2] \in {"p", "P"}
    /\ name[Len(name) - 1] \in {"d", "D"}
    /\ name[Len(name)] \in {"f", "F"}

\* C7: POST /api/documents/upload with a file whose name does not end in
\* ".pdf", compared without regard to case, answers 400 and leaves the
\* document registry and the backing folder as they were; a name that does
\* end in ".pdf" in any case is never answered 400.
C7_NonPdfUploadIs400 ==
    [][ last'.op = "route_upload_document" =>
          /\ ~EndsInDotPdf(last'.args[1]) =>
                /\ last'.status = 400
                /\ UNCHANGED <<documents_metadata, data_folder, uuid_documents>>
          /\ EndsInDotPdf(last'.args[1]) => last'.status # 400
      ]_vars

\* An upload named "dpdf" was answered 400 while the registry holds a record.
C7_Witness ==
    /\ last.op = "route_upload_document"
    /\ last.args[1] = <<"d", "p", "d", "f">>
    /\ last.status = 400
    /\ DOMAIN documents_metadata # {}

\* C8 as stated: after an upload that succeeded, the listing holds exactly
\* one record with the uploaded filename and processed = false.
C8_ExactlyOneRecordWithFilename ==
    (last.op = "route_upload_document" /\ last.status = 200) =>
        Cardinality({d \in list_documents(documents_metadata) :
                        d.filename = last.args[1] /\ ~d.processed}) = 1

\* C8 amended: an upload that succeeded adds one record under an identifier
\* the registry did not hold, keeps every earlier record, and the listing then
\* holds exactly one record with the returned identifier: the returned
\* metadata, with the uploaded filename and processed = false.  Earlier
\* records with the same filename stay listed.
C8_ExactlyOneRecordWithId ==
    [][ (last'.op = "route_upload_document" /\ last'.status = 200) =>
          LET listed == list_documents(documents_metadata')
              metadata == last'.ret
          IN  /\ metadata.id \notin DOMAIN documents_metadata
              /\ DOMAIN documents_metadata' = DOMAIN documents_metadata \cup {metadata.id}
              /\ \A d \in DOMAIN documents_metadata :
                    documents_metadata'[d] = documents_metadata[d]
              /\ {d \in listed : d.id = metadata.id} = {metadata}
              /\ metadata.filename = last'.args[1]
              /\ ~metadata.processed
              /\ Cardinality({d \in listed : d.filename = last'.args[1]})
                    = Cardinality({d \in list_documents(documents_metadata) :
                                      d.filename = last'.args[1]}) + 1
      ]_vars

\* An upload has succeeded and the listing holds two unprocessed records
\* with its filename.
C8_Witness ==
    /\ last.op = "route_upload_document"
    /\ last.status = 200
    /\ Cardinality({d \in list_documents(documents_metadata) :
                       d.filename = last.args[1] /\ ~d.processed}) = 2

\* The response of a bulk upload that has run to its end.
C9_Response ==
    (last.op = "bulk_upload_documents" /\ last.status # 0) =>
        LET files == last.args
            uploaded_docs == last.ret.uploaded_docs
            errors == last.ret.errors
        IN  /\ last.status \in {200, 500}
            /\ last.status = 500 <=> Len(errors) = Len(files)
            /\ last.status = 500 => uploaded_docs = <<>>
            /\ Len(uploaded_docs) + Len(errors) = Len(files)
            /\ Cardinality({i \in DOMAIN files : ~EndsInDotPdf(files[i].filename)})
                  <= Len(errors)
            /\ \A i \in DOMAIN uploaded_docs :
                  /\ EndsInDotPdf(uploaded_docs[i].filename)
                  /\ ~uploaded_docs[i].processed
                  /\ \A j \in DOMAIN uploaded_docs :
                        uploaded_docs[i].id = uploaded_docs[j].id => i = j

\* One step of a bulk upload: the registry gains the record the step appends
\* to the successes, under an identifier it did not hold, or stays as it was.
C9_Step ==
    last'.op = "bulk_upload_documents" =>
        LET before == IF bulk = None THEN <<>> ELSE bulk[1].uploaded_docs
            after == IF bulk' = None THEN last'.ret.uploaded_docs
                     ELSE bulk'[1].uploaded_docs
        IN  \/ after = before /\ documents_metadata' = documents_metadata
            \/ /\ Len(after) = Len(before) + 1
               /\ SubSeq(after, 1, Len(before)) = before
               /\ after[Len(after)].id \notin DOMAIN documents_metadata
               /\ DOMAIN documents_metadata'
                     = DOMAIN documents_metadata \cup {after[Len(after)].id}
               /\ documents_metadata'[after[Len(after)].id] = after[Len(after)]
               /\ \A d \in DOMAIN documents_metadata :
                     documents_metadata'[d] = documents_metadata[d]

\* C9: a bulk upload answers 500 exactly when every file failed; otherwise
\* it answers 200 with one metadata record per file uploaded successfully,
\* the other files being counted as errors; and each step of the request
\* adds to the registry exactly the record it adds to the successes.
C9_BulkUpload == []C9_Response /\ [][C9_Step]_vars

\* A bulk upload of three files has answered 200 with two records and one
\* error, both records being in the registry.
C9_Witness ==
    /\ last.op = "bulk_upload_documents"
    /\ last.status = 200
    /\ Len(last.args) = 3
    /\ Len(last.ret.uploaded_docs) = 2
    /\ Len(last.ret.errors) = 1
    /\ \A i \in 1..2 : last.ret.uploaded_docs[i].id \in DOMAIN documents_metadata

\* C10 as stated: POST /api/documents/process answers 400, 500 or 200; on
\* 400 and 500 the index handle is the previous one and every record of the
\* registry has processed = true.
C10_FlagsFlippedOnEveryFailure ==
    [][ last'.op = "route_process_documents" =>
          /\ last'.status \in {200, 400, 500}
          /\ last'.status \in {400, 500} =>
                /\ vectordb' = vectordb
                /\ \A d \in DOMAIN documents_metadata' :
                      documents_metadata'[d].processed
      ]_vars

\* C10 amended: POST /api/documents/process answers 500 with the registry
\* untouched when text extraction fails; otherwise every record gets
\* processed = true, and the answer is 400 if zero chunks resulted, 500 if
\* the rebuild failed and 200 with the counts otherwise.  On every 400 and
\* 500 the index handle is the previous one; on 200 it is a new handle over
\* the chunks.
C10_ProcessOutcomes ==
    [][ last'.op = "route_process_documents" =>
          LET text == load_pdfs(data_folder)
              flipped == /\ DOMAIN documents_metadata' = DOMAIN documents_metadata
                         /\ \A d \in DOMAIN documents_metadata :
                               documents_metadata'[d] =
                                  [documents_metadata[d] EXCEPT !.processed = TRUE]
          IN  /\ last'.status \in {200, 400, 500}
              /\ last'.status \in {400, 500} => vectordb' = vectordb
              /\ ~text.ok =>
                    /\ last'.status = 500
                    /\ documents_metadata' = documents_metadata
              /\ text.ok => flipped
              /\ (text.ok /\ split_text(text.val) = <<>>) => last'.status = 400
              /\ (text.ok /\ split_text(text.val) # <<>>) =>
                    /\ last'.status \in {200, 500}
                    /\ last'.status = 500 =>
                          last'.ret = "Failed to rebuild vector store"
                    /\ last'.status = 200 =>
                          /\ vectordb' = Some([chunks |-> split_text(text.val)])
                          /\ last'.ret.chunks_created = Len(split_text(text.val))
                          /\ last'.ret.documents_processed
                                = Cardinality(DOMAIN documents_metadata)
              /\ UNCHANGED <<data_folder, uuid_documents>>
      ]_vars

\* The rebuild has failed behind a loaded index: 500, the handle still there,
\* and the record uploaded since startup marked processed.
C10_Witness ==
    /\ last.op = "route_process_documents"
    /\ last.status = 500
    /\ last.ret = "Failed to rebuild vector store"
    /\ vectordb # None
    /\ Uuid(1) \in DOMAIN documents_metadata
    /\ \A d \in DOMAIN documents_metadata : documents_metadata[d].processed

\* The registry just after construction: a record marked processed has an
\* index that can include it.
C11_AtStartup ==
    last.op = "startup" =>
        \A d \in DOMAIN documents_metadata :
            documents_metadata[d].processed => vectordb # None

\* One step: the registry was consistent at startup; a new record starts with processed = false; a flag turns true
\* only in a POST /api/documents/process whose rebuild went through with the
\* document's file in the folder, and such a rebuild turns it true; a flag
\* never turns false.
C11_Step ==
    LET included(d) == (d \o DotPdf) \in DOMAIN data_folder
        rebuilt == /\ last'.op = "route_process_documents"
                   /\ last'.status = 200
    IN  /\ C11_AtStartup
        /\ \A d \in DOMAIN documents_metadata' \ DOMAIN documents_metadata :
              ~documents_metadata'[d].processed
        /\ \A d \in DOMAIN documents_metadata' \cap DOMAIN documents_metadata :
              /\ (~documents_metadata[d].processed /\ documents_metadata'[d].processed)
                    => (rebuilt /\ included(d))
              /\ (rebuilt /\ included(d)) => documents_metadata'[d].processed
              /\ documents_metadata[d].processed => documents_metadata'[d].processed

\* C11: a record's processed flag is true exactly when the document was
\* included in the last index rebuild: it is false from the upload until a
\* rebuild that includes the document, and it is never true for a document
\* no rebuild has included.
C11_ProcessedIffInLastRebuild == [][C11_Step]_vars

\* C12: with an index loaded, query(text, k) builds the answer from the
\* top-k nearest chunks for the k the caller passed, which are the chunks
\* search(text, k) returns as the sources of the same /api/query or
\* /api/chat response.
C12_AnswerFromTopK ==
    /\ (last.op = "query" /\ last.ret.ok) =>
          last.ret.val.ctx = similarity_search(vectordb[1], last.args[1], last.args[2])
    /\ (last.op \in {"query_documents", "chat"} /\ last.status = 200) =>
          last.ret.answer.ctx
              = [i \in 1..Len(last.ret.sources) |-> last.ret.sources[i].content]

\* A history in which some assistant message does not directly follow the
\* user message it answers: the appends of two requests are interleaved.
Interleaved(messages) ==
    \E i \in DOMAIN messages :
       /\ messages[i].role = "assistant"
       /\ \/ i = 1
          \/ messages[i - 1].role # "user"
          \/ messages[i - 1].content.q # messages[i].content.q

\* The registries two POST /api/chat requests on session sid can leave, run
\* one after the other from registry S at clock reading t.
TwoChats(S, uuid, vdb, sid, t) ==
    { chat(chat(S, uuid, vdb, m1, Some(sid), 1, g1, TRUE, ts1).sessions,
           uuid, vdb, m2, Some(sid), 1, g2, TRUE, ts2).sessions :
        <<m1, m2, g1, g2, ts1, ts2>> \in
            { x \in Queries \X Queries \X BOOLEAN \X BOOLEAN
                      \X ClockReads(t, 4) \X ClockReads(t, 4) : TRUE } }

\* C13 as stated: two /api/chat requests on one session can leave a history
\* in which their appends are interleaved.
C13_TwoRequestsCanInterleave ==
    \A sid \in DOMAIN sessions :
       \E S \in TwoChats(sessions, uuid_sessions, vectordb, sid, now) :
          Interleaved(S[sid].messages)

\* C13 amended: the appends of /api/chat requests to one session never
\* interleave.  Each request appends its user message and, unless its query
\* step fails, the assistant message answering it directly after, to the
\* session it names and to no other.
C13_AppendsOfARequestAreAdjacent ==
    /\ [](\A sid \in DOMAIN sessions : ~Interleaved(sessions[sid].messages))
    /\ [][ (last'.op = "chat" /\ last'.status # 404) =>
              \E sid \in DOMAIN sessions' :
                 LET before == IF sid \in DOMAIN sessions
                               THEN sessions[sid].messages ELSE <<>>
                     added == SubSeq(sessions'[sid].messages, Len(before) + 1,
                                     Len(sessions'[sid].messages))
                 IN  /\ truthy(last'.args[2]) => sid = last'.args[2][1]
                     /\ SubSeq(sessions'[sid].messages, 1, Len(before)) = before
                     /\ Len(added) \in {1, 2}
                     /\ added[1].role = "user"
                     /\ added[1].content = Text(last'.args[1])
                     /\ Len(added) = 2 =>
                           /\ added[2].role = "assistant"
                           /\ added[2].content.q = last'.args[1]
                     /\ Len(added) = 2 <=> last'.status = 200
                     /\ \A x \in DOMAIN sessions \ {sid} : sessions'[x] = sessions[x]
         ]_vars

\* Two requests with different messages were answered on one session: its
\* history holds four messages.
C13_Witness ==
    /\ last.op = "chat"
    /\ last.status = 200
    /\ truthy(last.args[2])
    /\ LET messages == sessions[last.args[2][1]].messages
       IN  /\ Len(messages) = 4
           /\ messages[1].content.q # messages[3].content.q

\* The contents of the sources of a response.
SourceContents(sources) == [i \in 1..Len(sources) |-> sources[i].content]

\* A 200 response to a request with query q and k whose answer and sources
\* both come from the one handle db.
FromOneHandle(resp, db, q, k) ==
    /\ resp.ret.answer.ctx = similarity_search(db, q, AnswerK)
    /\ SourceContents(resp.ret.sources) = similarity_search(db, q, k)

\* A 200 response whose answer and sources come one from each of two
\* handles, and from neither of them alone.
FromTwoHandles(resp, old, new, q, k) ==
    /\ resp.status = 200
    /\ ~FromOneHandle(resp, old, q, k)
    /\ ~FromOneHandle(resp, new, q, k)
    /\ \/ /\ resp.ret.answer.ctx = similarity_search(old, q, AnswerK)
          /\ SourceContents(resp.ret.sources) = similarity_search(new, q, k)
       \/ /\ resp.ret.answer.ctx = similarity_search(new, q, AnswerK)
          /\ SourceContents(resp.ret.sources) = similarity_search(old, q, k)

\* C14 as stated: when a POST /api/documents/process replaces the index
\* handle, a POST /api/query served at that time can build its answer from
\* one handle and list its sources from the other.
C14_AnswerAndSourcesCanDiffer ==
    LET p == route_process(documents_metadata, data_folder, vectordb, TRUE)
    IN  (truthy(vectordb) /\ p.resp.status = 200 /\ p.vectordb # vectordb) =>
            \E q \in Queries, k \in QueryK, vdb \in {vectordb, p.vectordb} :
               FromTwoHandles(query_documents(vdb, q, k, TRUE, TRUE),
                              vectordb[1], p.vectordb[1], q, k)

\* C14 amended: a POST /api/query or POST /api/chat request reads one index
\* handle: the answer and the sources of a 200 response both come from the
\* handle in place when the request is served, and the request leaves it in
\* place.  The handle changes only in a POST /api/documents/process step
\* that answers 200, and then in one step from the old handle to the new.
C14_OneHandlePerRequest ==
    [][ /\ (last'.op \in {"query_documents", "chat"} /\ last'.status = 200) =>
              /\ truthy(vectordb)
              /\ vectordb' = vectordb
              /\ FromOneHandle(last', vectordb[1], last'.args[1],
                               IF last'.op = "chat" THEN last'.args[3]
                               ELSE last'.args[2])
        /\ vectordb' # vectordb =>
              /\ last'.op = "route_process_documents"
              /\ last'.status = 200
              /\ vectordb' = Some([chunks |-> split_text(load_pdfs(data_folder).val)])
      ]_vars

\* POST /api/query has answered 200 from a handle that a process request
\* built from two uploaded or found files.
C14_Witness ==
    /\ last.op = "query_documents"
    /\ last.status = 200
    /\ last.args[2] = 10
    /\ vectordb = Some([chunks |-> <<"A", "A">>])
    /\ \A d \in DOMAIN documents_metadata : documents_metadata[d].processed

\* C15: deleting a document returns whether a record existed.  On a known
\* identifier it returns True (DELETE answers 200), removes that record and
\* the file named after the identifier and nothing else, so that
\* get_document reports it absent and load_pdfs no longer reads the file; on
\* an unknown identifier it returns False (404) and changes neither the
\* registry nor the folder.  In both cases the index handle stays as it was.
C15_DeleteDocument ==
    [][ last'.op \in {"delete_document", "route_delete_document"} =>
          LET doc_id == last'.args[1]
              path == doc_id \o DotPdf
              ok == IF last'.op = "delete_document" THEN last'.ret = TRUE
                    ELSE last'.status = 200
              notfound == IF last'.op = "delete_document" THEN last'.ret = FALSE
                          ELSE last'.status = 404
          IN  /\ UNCHANGED <<vectordb, uuid_documents, chat_vars>>
              /\ doc_id \notin DOMAIN documents_metadata =>
                    /\ notfound
                    /\ UNCHANGED <<documents_metadata, data_folder>>
              /\ doc_id \in DOMAIN documents_metadata =>
                    /\ ok
                    /\ DOMAIN documents_metadata' = DOMAIN documents_metadata \ {doc_id}
                    /\ \A d \in DOMAIN documents_metadata' :
                          documents_metadata'[d] = documents_metadata[d]
                    /\ get_document(documents_metadata', doc_id) = None
                    /\ DOMAIN data_folder' = DOMAIN data_folder \ {path}
                    /\ \A n \in DOMAIN data_folder' : data_folder'[n] = data_folder[n]
                    /\ load_pdfs(data_folder')
                          = load_pdfs([n \in DOMAIN data_folder \ {path} |-> data_folder[n]])
      ]_vars

\* DELETE has removed an uploaded document and its file while an index is
\* loaded and another record is still registered.
C15_Witness ==
    /\ last.op = "route_delete_document"
    /\ last.status = 200
    /\ vectordb # None
    /\ last.args[1] = Uuid(1)
    /\ (Uuid(1) \o DotPdf) \notin DOMAIN data_folder
    /\ DOMAIN documents_metadata # {}

\* A name whose last four characters are ".pdf" as written.
MatchesStarDotPdf(name) ==
    /\ Len(name) >= 4
    /\ SubSeq(name, Len(name) - 3, Len(name)) = <<".", "p", "d", "f">>

\* C16 as stated: on construction the registry holds exactly one record per
\* PDF file of the folder -- a file the application takes for a PDF, by its
\* name ending in ".pdf" in any case -- under the file name without its
\* extension, with processed = true.
C16_OneRecordPerPdfFile ==
    last.op = "startup" =>
        LET pdfs == {n \in DOMAIN data_folder : EndsInDotPdf(n)}
        IN  /\ DOMAIN documents_metadata = {SubSeq(n, 1, Len(n) - 4) : n \in pdfs}
            /\ Cardinality(DOMAIN documents_metadata) = Cardinality(pdfs)
            /\ \A d \in DOMAIN documents_metadata :
                  documents_metadata[d].id = d /\ documents_metadata[d].processed

\* The registry just after construction: one record per file matching
\* "*.pdf" as written, under its name without the extension, processed.
C16_AtStartup ==
    last.op = "startup" =>
        LET pdfs == {n \in DOMAIN data_folder : MatchesStarDotPdf(n)}
        IN  /\ DOMAIN documents_metadata = {SubSeq(n, 1, Len(n) - 4) : n \in pdfs}
            /\ Cardinality(DOMAIN documents_metadata) = Cardinality(pdfs)
            /\ \A d \in DOMAIN documents_metadata :
                  /\ documents_metadata[d].id = d
                  /\ documents_metadata[d].filename = d \o <<".", "p", "d", "f">>
                  /\ documents_metadata[d].processed
                  /\ (d \o <<".", "p", "d", "f">>) \in DOMAIN data_folder

\* A restart: every record whose file is in the folder is there again under
\* the same identifier, marked processed whatever its flag was, and the
\* folder is as it was.
C16_Restart ==
    last'.op = "startup" =>
        /\ data_folder' = data_folder
        /\ \A d \in DOMAIN documents_metadata :
              (d \o <<".", "p", "d", "f">>) \in DOMAIN data_folder =>
                 /\ d \in DOMAIN documents_metadata'
                 /\ documents_metadata'[d].id = d
                 /\ documents_metadata'[d].processed

\* C16 amended: on construction the registry holds exactly one record per
\* file of the folder whose name matches "*.pdf" as written, with identifier
\* and filename taken from the file name and processed = true; a file whose
\* extension is in another case gets no record.  Hence a document uploaded
\* before a restart reappears after it under the same identifier, marked
\* processed even if no rebuild ever included it.
C16_RecordsFromFolder == []C16_AtStartup /\ [][C16_Restart]_vars

\* After a restart the registry holds, marked processed and named after its
\* file, a document that was uploaded and never processed.
C16_Witness ==
    /\ last.op = "startup"
    /\ Uuid(1) \in DOMAIN documents_metadata
    /\ documents_metadata[Uuid(1)].processed
    /\ documents_metadata[Uuid(1)].filename = <<"1", ".", "p", "d", "f">>
    /\ data_folder[<<"1", ".", "p", "d", "f">>] = "A"

\* Every session's message_count is the length of its message list, and so
\* is the count of its summary, in list_sessions and in what the last
\* listing returned.
C17_CountIsLength ==
    /\ \A sid \in DOMAIN sessions :
          sessions[sid].message_count = Len(sessions[sid].messages)
    /\ \A summary \in list_sessions(sessions) :
          /\ summary.session_id \in DOMAIN sessions
          /\ summary.message_count = Len(sessions[summary.session_id].messages)
    /\ last.op \in {"list_sessions", "route_list_sessions"} =>
          /\ Cardinality(last.ret) = Cardinality(DOMAIN sessions)
          /\ \A summary \in last.ret :
                summary.message_count = Len(sessions[summary.session_id].messages)

\* One step leaves the messages a session already held in place, at the
\* front of its list.
C17_AppendOnly ==
    \A sid \in DOMAIN sessions \cap DOMAIN sessions' :
       /\ Len(sessions'[sid].messages) >= Len(sessions[sid].messages)
       /\ SubSeq(sessions'[sid].messages, 1, Len(sessions[sid].messages))
             = sessions[sid].messages

\* C17: after any sequence of create_session, add_message, delete_session
\* and chat requests every session's message_count equals the length of its
\* message list, the summaries list_sessions returns report that count, and
\* the message list of an existing session only changes by appending.
C17_MessageCountInvariant == []C17_CountIsLength /\ [][C17_AppendOnly]_vars

\* A listing reports two messages for a session that a chat request and a
\* direct add_message have each written to.
C17_Witness ==
    /\ last.op = "list_sessions"
    /\ \E summary \in last.ret :
          /\ summary.message_count = 2
          /\ \E i, j \in 1..2 :
                /\ sessions[summary.session_id].messages[i].content.q = "q1"
                /\ sessions[summary.session_id].messages[j].content.q = "q2"

\* C18: a POST /api/chat request that passes the session check and whose
\* query step fails -- no index loaded, or the answer generation failing --
\* answers 500 and leaves the session with the user message appended and no
\* assistant message after it; a session created for the request stays in
\* the registry.  A request that passes the check with no index loaded
\* always ends this way.
C18_FailedQueryKeepsUserMessage ==
    [][ last'.op = "chat" =>
          LET message == last'.args[1]
              session_id == last'.args[2]
              passed == ~chat_session_missing(sessions, session_id)
          IN  /\ (passed /\ ~truthy(vectordb)) =>
                    last'.status = 500 /\ last'.ret = NotInitialized
              /\ (last'.status = 500 /\ last'.ret \in {NotInitialized, LLMFailed}) =>
                    /\ passed
                    /\ \E sid \in DOMAIN sessions' :
                          LET before == IF sid \in DOMAIN sessions
                                        THEN sessions[sid].messages ELSE <<>>
                              after == sessions'[sid].messages
                          IN  /\ (sid \in DOMAIN sessions) <=> truthy(session_id)
                              /\ truthy(session_id) => sid = session_id[1]
                              /\ Len(after) = Len(before) + 1
                              /\ SubSeq(after, 1, Len(before)) = before
                              /\ after[Len(after)].role = "user"
                              /\ after[Len(after)].content = Text(message)
                              /\ sessions'[sid].message_count = Len(after)
                              /\ DOMAIN sessions' = DOMAIN sessions \cup {sid}
                              /\ \A x \in DOMAIN sessions \ {sid} :
                                    sessions'[x] = sessions[x]
      ]_vars

\* A request on a known session has failed in its query step for the second
\* time: the history holds two user messages in a row.
C18_Witness ==
    /\ last.op = "chat"
    /\ last.status = 500
    /\ last.ret = LLMFailed
    /\ truthy(last.args[2])
    /\ LET messages == sessions[last.args[2][1]].messages
       IN  /\ Len(messages) = 2
           /\ messages[1].role = "user"
           /\ messages[2].role = "user"

====
